---- MODULE Spec2Model ----
(***************************************************************************)
(* The websocket client of tk-substancepainter (Client / EngineClient in   *)
(* python/tk_substancepainter/application.py) and the inbound dispatcher   *)
(* of the engine (SubstancePainterEngine.process_request and the event     *)
(* callback registry in engine.py).                                        *)
(*                                                                         *)
(* Everything runs on one thread.  A blocking call re-enters the Qt event  *)
(* loop, so the Python call stack of that thread is part of the state:     *)
(* `stack` holds one frame per send_and_receive / send_text_message /      *)
(* export_document_maps activation that is suspended in an event pump.     *)
(* Socket events, timers and user actions are delivered only while the    *)
(* innermost frame pumps events.                                           *)
(***************************************************************************)
EXTENDS Integers, Sequences, FiniteSets, TLC

\* ------------------------------------------------------------------ bounds
\* Transport specification (Spec): send_and_receive activations explored
\* (ids 1..MaxCalls) and activations suspended at once.
MaxCalls == 2
MaxDepth == 2
\* Connection losses (every specification with a socket).
MaxLoss == 1
\* Export specification (SpecExport): export_document_maps activations
\* and inbound EXPORT_FINISHED notifications.
MaxExports == 1
MaxNotifs == 2
\* Nested-export specification (SpecNested): export_document_maps
\* activations, the later ones started by handlers that run during the
\* wait of the earlier.
MaxNestedExports == 2
\* Notification specification (SpecNotify): send_text_message calls
\* without callback, and facade calls made beside them.
MaxNotify == 2
MaxNotifyCalls == 1
\* Registry specification (SpecRegistry): length of a callback list and
\* number of registry operations.
MaxCbs == 2
MaxRegOps == 4
\* Inbound specification (SpecInbound): inbound messages handled, facade
\* calls made beside them, activations suspended at once, and callbacks
\* registered.
MaxInbound == 2
MaxInboundCalls == 1
MaxInboundDepth == 2
MaxInboundRegs == 1
\* Facade specification (SpecFacade): facade calls explored and activations
\* suspended at once.
MaxFacadeCalls == 1
MaxFacadeDepth == 1
\* Version specification (SpecVersion): largest minor and patch component
\* of a host version.
MaxMinor == 3
MaxPatch == 1
\* Reconnection specification (SpecReconnect): failures of the connection
\* or of an attempt to connect, Client.close() calls, and facade calls made
\* beside them.
MaxDrops == 2
MaxCloses == 1
MaxReconnCalls == 1

VARIABLES
  urlOK,          \* whether QWebSocket.open accepts Client.url
  state,          \* self.client.state()
  callbacks,      \* Client.callbacks: the ids that have a completion registered
  data,           \* the attribute send_and_receive.data (one slot for all calls)
  stack,          \* suspended activations, innermost last
  calls,          \* wire method of each send_and_receive activation so far
  sent,           \* ids of the requests written to a connected socket
  answered,       \* ids the server has replied to
  outcome,        \* history: how each finished send_and_receive ended
  event_callbacks,\* SubstancePainterEngine._event_callbacks
  export_results, \* EngineClient.__export_results
  nextExport,     \* number of the next export_document_maps activation
  exportOutcome,  \* history: how each finished export_document_maps ended
  notifs,         \* inbound notifications received so far
  notifyCalls,    \* send_text_message calls without callback so far
  wire,           \* messages handed to QWebSocket.sendTextMessage so far
  destroyed,      \* number of destroy_engine() calls
  appQuit,        \* QApplication.quit() was called (quitNow of the thread)
  losses,         \* connection losses so far
  regLog,         \* history: the last registry operation or dispatch
  regOps,         \* registry operations so far (registry specification)
  reconnects,     \* connect_to_server calls of on_state_changed since the
                  \* socket was last connected
  closes,         \* Client.close() calls so far
  menu_generator, \* SubstancePainterEngine._menu_generator is set
  pointer,        \* QCursor.pos()
  menuShown,      \* history: times the menu was popped up and where last
  rx,             \* inbound messages handled so far (inbound specification)
  rxLog,          \* history: the last inbound message and what it did
  painter_version_str, \* the version the host reports, as its components
  painter_version,     \* pre_app_init: the normalized version, once computed
  versionCheck         \* pre_app_init: what its version check came to

vars == <<urlOK, state, callbacks, data, stack, calls, sent, answered,
          outcome, event_callbacks, export_results, nextExport, exportOutcome,
          notifs, notifyCalls, wire, destroyed, appQuit, losses, regLog, regOps,
          reconnects, closes, menu_generator, pointer, menuShown, rx, rxLog,
          painter_version_str, painter_version, versionCheck>>

\* The variables of the reconnection logic and of the inbound handler.
reconn == <<reconnects, closes>>
inbound == <<menu_generator, pointer, menuShown, rx, rxLog>>

\* The variables of the version check of pre_app_init.
startup == <<painter_version_str, painter_version, versionCheck>>

\* ------------------------------------------------------------------ values
SocketStates == {"Unconnected", "Connecting", "Connected", "Closing"}

\* Wire methods of the call-and-wait facade methods that are explored.
Methods == {"GET_VERSION", "SAVE_PROJECT"}

\* Wire methods of the call-and-wait facade methods that hand back what
\* send_and_receive returned, or are meant to: get_current_project_path,
\* open_project, save_project, save_project_as, close_project,
\* import_project_resource, get_project_settings, get_resource_info,
\* get_project_export_path, update_document_resources, document_resources.
FacadeMethods ==
  {"GET_CURRENT_PROJECT_PATH", "OPEN_PROJECT", "SAVE_PROJECT",
   "SAVE_PROJECT_AS", "CLOSE_PROJECT", "IMPORT_PROJECT_RESOURCE",
   "GET_PROJECT_SETTINGS", "GET_RESOURCE_INFO", "GET_PROJECT_EXPORT_PATH",
   "UPDATE_DOCUMENT_RESOURCES", "DOCUMENT_RESOURCES"}

\* The value of send_and_receive.data before any reply was stored: the
\* attribute does not exist.
NoData == [rid |-> 0, painter |-> "noattr"]

\* The `result` payload of the server's reply to request id: every request
\* has a result of its own; the result of GET_VERSION is an object with a
\* `painter` field.
Result(id) ==
  [rid |-> id,
   painter |-> IF calls[id] = "GET_VERSION" THEN "10.2.0" ELSE "nofield"]

\* map_infos carried by an inbound EXPORT_FINISHED: two mappings, the field
\* left out, or JSON null.
Payloads == {"mA", "mB", "absent", "null"}

Last(s) == s[Len(s)]
Front(s) == SubSeq(s, 1, Len(s) - 1)

Range(s) == {s[i] : i \in DOMAIN s}

\* ------------------------------------------------------------------ frames
\* An id generator that hands out the id of the previous activation again
\* (what C20 rules out).
ReusedId == IF calls = <<>> THEN Len(calls) + 1 ELSE Len(calls)

\* The id of the next send_and_receive activation.  uuid.uuid4().hex gives
\* every message an id no earlier message had; the activation number is
\* used for it.
NextId == Len(calls) + 1

\* QEventLoop.exec_() returns at once while quitNow is set.
LoopPhase == IF appQuit THEN "noloop" ELSE "waiting"

\* A suspended send_and_receive (kind "call") or a send_text_message
\* without callback (kind "notify").  phase: "connecting" is the wait loop
\* of send_text_message, "waiting" is loop.exec_(), "noloop" a loop.exec_()
\* that returned without running.  quit is the loop's exit flag and why the
\* first thing that set it: "reply" (await_for_response), "timeout" (the
\* timer), "appquit" (QApplication.quit() while the loop ran) or "quitnow"
\* (the loop never ran).
Frame(kind, id, m, phase) ==
  [kind |-> kind, id |-> id, method |-> m, phase |-> phase,
   quit |-> (phase = "noloop"),
   why |-> IF phase = "noloop" THEN "quitnow" ELSE "none",
   last |-> "none", nfin |-> 0, early |-> FALSE]

\* A suspended export_document_maps: "calling" while its send_and_receive
\* runs, "polling" in its while loop.  last is the map_infos of the latest
\* EXPORT_FINISHED received since it registered its callback, nfin their
\* number, early whether one had been received when its send_and_receive
\* returned (history).
ExportFrame(n) ==
  [kind |-> "export", id |-> n, method |-> "EXPORT_DOCUMENT_MAPS",
   phase |-> "calling", quit |-> FALSE, why |-> "none",
   last |-> "none", nfin |-> 0, early |-> FALSE]

\* The innermost activation is inside an event pump (QEventLoop.exec_ or
\* QCoreApplication.processEvents), or no activation is suspended and the
\* application's own loop runs.  A loop whose exit flag is set still
\* delivers the events of the batch it is processing.
Pumping ==
  IF stack = <<>>
  THEN TRUE
  ELSE Last(stack).phase \in {"connecting", "waiting", "polling"}

\* QEventLoop.quit() of the loop of activation id.
QuitLoop(stk, id, why) ==
  [i \in DOMAIN stk |->
     IF /\ stk[i].kind = "call" /\ stk[i].id = id
        /\ stk[i].phase = "waiting" /\ ~stk[i].quit
     THEN [stk[i] EXCEPT !.quit = TRUE, !.why = why]
     ELSE stk[i]]

\* QCoreApplication.quit(): every running event loop of the thread exits.
QuitAll(stk) ==
  [i \in DOMAIN stk |->
     IF /\ stk[i].kind \in {"call", "menu"}
        /\ stk[i].phase = "waiting" /\ ~stk[i].quit
     THEN [stk[i] EXCEPT !.quit = TRUE, !.why = "appquit"]
     ELSE stk[i]]

\* ------------------------------------------------------- send_text_message
\* A send_text_message that returns early only while the socket is closing
\* (what C5 rules out for the unconnected socket).
DroppedOnlyClosing(st) == st = "Closing"

\* The early return of send_text_message.
Dropped(st) == st \in {"Closing", "Unconnected"}

\* send_and_receive up to loop.exec_(): send_text_message(command,
\* callback=await_for_response), then the timer and the loop.
send_and_receive(m, base) ==
  LET id == NextId IN
  /\ calls' = Append(calls, m)
  /\ IF Dropped(state)
     THEN /\ UNCHANGED <<callbacks, sent, wire>>
          /\ stack' = Append(base, Frame("call", id, m, LoopPhase))
     ELSE IF state = "Connecting"
     THEN /\ UNCHANGED <<callbacks, sent, wire>>
          /\ stack' = Append(base, Frame("call", id, m, "connecting"))
     ELSE /\ callbacks' = callbacks \cup {id}
          /\ sent' = sent \cup {id}
          /\ wire' = wire + 1
          /\ stack' = Append(base, Frame("call", id, m, LoopPhase))

\* --------------------------------------------------------------- registry
\* Callback handles.  ExportCb(n) is the closure
\* run_once_finished_exporting_maps of export activation n.  The user
\* callbacks are functions a caller of register_event_callback passes in:
\* UserCb(1) unregisters itself from the event type when it runs (a
\* one-shot listener), UserCb(2) only runs.
ExportCb(n) == [k |-> "export", n |-> n]
UserCb(n) == [k |-> "user", n |-> n]
UserCbs == {UserCb(1), UserCb(2)}
OneShot(fn) == fn = UserCb(1)

\* list.remove(x): the first occurrence goes.
RemoveFirst(s, x) ==
  LET i == CHOOSE i \in 1..Len(s) : s[i] = x /\ \A j \in 1..(i - 1) : s[j] # x
  IN SubSeq(s, 1, i - 1) \o SubSeq(s, i + 1, Len(s))

register_event_callback(reg, event_type, callback_fn) ==
  IF event_type \notin DOMAIN reg
  THEN reg @@ (event_type :> <<callback_fn>>)
  ELSE [reg EXCEPT ![event_type] = Append(@, callback_fn)]

\* An unregister without the membership test, whose removal takes the
\* newest callback of the event type when the one asked for is not there
\* (what C9 rules out).
unregister_newest(reg, event_type, callback_fn) ==
  IF event_type \notin DOMAIN reg
  THEN reg
  ELSE IF callback_fn \in Range(reg[event_type])
       THEN [reg EXCEPT ![event_type] = RemoveFirst(@, callback_fn)]
       ELSE [reg EXCEPT ![event_type] =
               IF @ = <<>> THEN @ ELSE SubSeq(@, 1, Len(@) - 1)]

unregister_event_callback(reg, event_type, callback_fn) ==
  IF event_type \notin DOMAIN reg
  THEN reg
  ELSE IF callback_fn \in Range(reg[event_type])
       THEN [reg EXCEPT ![event_type] = RemoveFirst(@, callback_fn)]
       ELSE reg

\* `for fn in self._event_callbacks[method]: fn(**kwargs)`: the list
\* iterator holds an index into the list object, which a callback that
\* unregisters changes under it.  i is the iterator's position, acc the
\* callbacks run so far.
RECURSIVE RunCallbacks(_, _, _, _)
RunCallbacks(reg, method, i, acc) ==
  IF i > Len(reg[method])
  THEN [reg |-> reg, invoked |-> acc]
  ELSE LET fn == reg[method][i]
           reg2 == IF OneShot(fn)
                   THEN unregister_event_callback(reg, method, fn)
                   ELSE reg
       IN RunCallbacks(reg2, method, i + 1, Append(acc, fn))

\* A callback that keeps the default whatever the notification carries
\* (what C6 rules out).
MapInfosDefault(p) == IF p = "null" THEN "None" ELSE "{}"

\* kwargs.get("map_infos", {}) in run_once_finished_exporting_maps.
MapInfos(p) ==
  IF p = "absent" THEN "{}" ELSE IF p = "null" THEN "None" ELSE p

\* A dispatcher that tears the engine down whatever the method (what C18
\* rules out).
process_request_teardown(e, method, p) ==
  [e EXCEPT !.destroyed = @ + 1, !.appQuit = TRUE]

\* The engine state process_request reads and writes.
EngineState ==
  [destroyed |-> destroyed, appQuit |-> appQuit, reg |-> event_callbacks,
   export_results |-> export_results, invoked |-> <<>>]

\* process_request(method, **kwargs) on engine state e; p is the map_infos
\* of kwargs.  self._qt_app is set before the client exists.  The built-in
\* branches for DISPLAY_MENU, NEW_PROJECT_CREATED and PROJECT_OPENED are
\* not entered by the methods explored here.
process_request(e, method, p) ==
  LET q == (method = "QUIT")
      run == IF method \in DOMAIN e.reg
             THEN RunCallbacks(e.reg, method, 1, <<>>)
             ELSE [reg |-> e.reg, invoked |-> <<>>]
      exp == \E i \in DOMAIN run.invoked : run.invoked[i].k = "export"
  IN [destroyed |-> e.destroyed + (IF q THEN 1 ELSE 0),
      appQuit |-> e.appQuit \/ q,
      reg |-> run.reg,
      export_results |-> IF exp THEN MapInfos(p) ELSE e.export_results,
      invoked |-> run.invoked]

\* Event types of the registry specification: one the repository itself
\* registers for, and a built-in method name.
EventTypes == {"EXPORT_FINISHED", "QUIT"}

Registered(reg, event_type, callback_fn) ==
  IF event_type \in DOMAIN reg THEN callback_fn \in Range(reg[event_type]) ELSE FALSE

\* regLog before any registry operation.
NoLog == [op |-> "none", method |-> "", fn |-> UserCb(0), was |-> FALSE, fns |-> <<>>]

\* ------------------------------------------------------------ reconnection
\* Client.max_attemps.
max_attemps == 5

\* connect_to_server(): QWebSocket.open(url) drops the socket it had and
\* starts a new connection, which leaves the state connecting; a url it
\* rejects leaves the state as it was.  The stateChanged(Connecting) it
\* emits re-enters on_state_changed, which returns at once for that state.
connect_to_server(st, ok) == IF ok THEN "Connecting" ELSE st

\* The while loop of on_state_changed from `attempts` on.  time.sleep does
\* not deliver events, so the state read by the loop test is the one the
\* last connect_to_server left.
RECURSIVE ReconnectLoop(_, _, _)
ReconnectLoop(st, ok, attempts) ==
  IF attempts < max_attemps /\ st # "Connected"
  THEN ReconnectLoop(connect_to_server(st, ok), ok, attempts + 1)
  ELSE [state |-> st, attempts |-> attempts]

\* on_state_changed when the socket has entered state st: the state it
\* leaves the socket in and the connect_to_server calls it made.
on_state_changed(st, ok) ==
  IF st = "Connecting"
  THEN [state |-> st, attempts |-> 0]
  ELSE ReconnectLoop(st, ok, 0)

\* ---------------------------------------------------------------- inbound
\* Pointer locations and click positions explored.
Points == {<<3, 4>>, <<10, 20>>}

\* clickedPosition in the params of a DISPLAY_MENU: left out, or {x, y}.
NoClick == [given |-> FALSE, x |-> 0, y |-> 0]
Clicks == {NoClick} \cup {[given |-> TRUE, x |-> pt[1], y |-> pt[2]] : pt \in Points}

\* A process_request that never reads clickedPosition (what C11 rules out).
menu_position_unread(clicked_info) == [none |-> TRUE, list |-> <<>>]

\* menu_position in process_request: None, or the list [x, y], for which
\* clicked_info has to be there and true (a dict with x and y is).
menu_position(clicked_info) ==
  IF clicked_info.given
  THEN [none |-> FALSE, list |-> <<clicked_info.x, clicked_info.y>>]
  ELSE [none |-> TRUE, list |-> <<>>]

\* pos in MenuGenerator.show: QCursor.pos() if pos is None, else
\* QPoint(pos[0], pos[1]).
show(pos, cursor) ==
  IF pos.none THEN cursor ELSE <<pos.list[1], pos.list[2]>>

\* The method names process_request has a branch for.
BuiltIn == {"DISPLAY_MENU", "NEW_PROJECT_CREATED", "PROJECT_OPENED", "QUIT"}

\* rxLog: form of the message, its method or id, whether process_request
\* was entered, what the handler raised, whether a reply found its id in
\* Client.callbacks.
RxLog(form, method, id, click, entered, raised, hit) ==
  [form |-> form, method |-> method, id |-> id, click |-> click,
   entered |-> entered, raised |-> raised, hit |-> hit]

\* rxLog before any inbound message.
NoRx == RxLog("none", "", 0, NoClick, FALSE, "none", FALSE)

\* ---------------------------------------------------------------- versions
\* A version string as LooseVersion parses it: the list of its numeric
\* components ("2018.3.1" is <<2018, 3, 1>>).
MINIMUM_SUPPORTED_VERSION == <<2018, 3>>

\* Versions Substance Painter has: 1.x and 2.x, the year style from 2017.1
\* to 2020.x, and the style that followed it (6.1 on), with or without a
\* patch component.
Majors == {1, 2, 6, 7, 10, 2017, 2018, 2019, 2020}
Versions ==
  LET two == {<<a, b>> : a \in Majors, b \in 0..MaxMinor}
      three == {<<a, b, c>> : a \in Majors, b \in 0..MaxMinor, c \in 0..MaxPatch}
  IN {v \in two \cup three : v[1] = 2017 => v[2] >= 1}

\* cmp(a, b) of two lists, as LooseVersion compares its components: the
\* first differing component decides, and a list that is a proper prefix
\* of the other is the smaller.
RECURSIVE cmp(_, _)
cmp(a, b) ==
  IF a = <<>> /\ b = <<>> THEN 0
  ELSE IF a = <<>> THEN -1
  ELSE IF b = <<>> THEN 1
  ELSE IF Head(a) < Head(b) THEN -1
  ELSE IF Head(a) > Head(b) THEN 1
  ELSE cmp(Tail(a), Tail(b))

\* A normalization that leaves every version as it is (what C23 rules
\* out).
version_unchanged(version) == version

\* to_new_version_system(version): 2014 is taken off the first component
\* of a version that is not smaller than 2017.1.
to_new_version_system(version) ==
  IF cmp(version, <<2017, 1>>) >= 0
  THEN [version EXCEPT ![1] = @ - 2014]
  ELSE version

\* ------------------------------------------------------------------- Init
\* The state after EngineClient(engine, url) returns: connect_to_server()
\* has called QWebSocket.open.  With a url open() rejects, the socket stays
\* unconnected and its error signal has already made on_error run
\* process_request("QUIT").
InitClient ==
  /\ urlOK \in BOOLEAN
  /\ state = IF urlOK THEN "Connecting" ELSE "Unconnected"
  /\ callbacks = {}
  /\ data = NoData
  /\ stack = <<>>
  /\ calls = <<>>
  /\ sent = {}
  /\ answered = {}
  /\ outcome = <<>>
  /\ event_callbacks = <<>>
  /\ export_results = "noattr"
  /\ nextExport = 1
  /\ exportOutcome = <<>>
  /\ notifs = 0
  /\ notifyCalls = 0
  /\ wire = 0
  /\ destroyed = IF urlOK THEN 0 ELSE 1
  /\ appQuit = ~urlOK
  /\ losses = 0
  /\ regLog = NoLog
  /\ regOps = 0
  /\ reconnects = 0
  /\ closes = 0
  /\ menu_generator = FALSE
  /\ pointer = <<3, 4>>
  /\ menuShown = [n |-> 0, at |-> <<0, 0>>]
  /\ rx = 0
  /\ rxLog = NoRx

\* The host is Substance Painter 10.2.0, and pre_app_init has not come to
\* its version check.
Init ==
  /\ InitClient
  /\ painter_version_str = <<10, 2, 0>>
  /\ painter_version = <<>>
  /\ versionCheck = "none"

\* ------------------------------------------------------------ the facade
\* A call-and-wait facade method (get_application_version, save_project)
\* enters send_and_receive.
CallMethod(m, maxCalls, maxDepth) ==
  /\ Pumping
  /\ NextId <= maxCalls
  /\ Len(stack) < maxDepth
  /\ send_and_receive(m, stack)
  /\ UNCHANGED <<reconn, inbound, startup>>
  /\ UNCHANGED <<urlOK, state, data, answered, outcome, event_callbacks,
                 export_results, nextExport, exportOutcome, notifs,
                 notifyCalls, destroyed, appQuit, losses, regLog, regOps>>

\* export_document_maps up to the loop.exec_() of its send_and_receive.
ExportStartUpTo(maxExports, maxCalls, maxDepth) ==
  /\ Pumping
  /\ nextExport <= maxExports
  /\ NextId <= maxCalls
  /\ Len(stack) + 2 <= maxDepth
  /\ export_results' = "None"
  /\ event_callbacks' = register_event_callback(
                          event_callbacks, "EXPORT_FINISHED", ExportCb(nextExport))
  /\ nextExport' = nextExport + 1
  /\ send_and_receive("EXPORT_DOCUMENT_MAPS", Append(stack, ExportFrame(nextExport)))
  /\ UNCHANGED <<reconn, inbound, startup>>
  /\ UNCHANGED <<urlOK, state, data, answered, outcome, exportOutcome, notifs,
                 notifyCalls, destroyed, appQuit, losses, regLog, regOps>>

\* An export within the budget of the export specification.
ExportStart(maxCalls, maxDepth) ==
  ExportStartUpTo(MaxExports, maxCalls, maxDepth)

\* send_text_message without callback (broadcast_event,
\* toggle_debug_logging).
NotifyMessage(maxDepth) ==
  /\ Pumping
  /\ notifyCalls < MaxNotify
  /\ Len(stack) < maxDepth
  /\ notifyCalls' = notifyCalls + 1
  /\ IF Dropped(state)
     THEN UNCHANGED <<wire, stack>>
     ELSE IF state = "Connecting"
     THEN /\ stack' = Append(stack, Frame("notify", 0, "ENGINE_READY", "connecting"))
          /\ UNCHANGED wire
     ELSE /\ wire' = wire + 1
          /\ UNCHANGED stack
  /\ UNCHANGED <<reconn, inbound, startup>>
  /\ UNCHANGED <<urlOK, state, callbacks, data, calls, sent, answered, outcome,
                 event_callbacks, export_results, nextExport, exportOutcome,
                 notifs, destroyed, appQuit, losses, regLog, regOps>>

\* The rest of send_text_message once its `while state == ConnectingState`
\* loop ends: the callback is stored and the message written, whatever the
\* state has become.
FinishSend ==
  /\ stack # <<>>
  /\ Last(stack).phase = "connecting"
  /\ state # "Connecting"
  /\ wire' = wire + 1
  /\ LET f == Last(stack) IN
     IF f.kind = "call"
     THEN /\ callbacks' = callbacks \cup {f.id}
          /\ sent' = IF state = "Connected" THEN sent \cup {f.id} ELSE sent
          /\ stack' = [stack EXCEPT ![Len(stack)] =
                         Frame("call", f.id, f.method, LoopPhase)]
     ELSE /\ stack' = Front(stack)
          /\ UNCHANGED <<callbacks, sent>>
  /\ UNCHANGED <<reconn, inbound, startup>>
  /\ UNCHANGED <<urlOK, state, data, calls, answered, outcome, event_callbacks,
                 export_results, nextExport, exportOutcome, notifs, notifyCalls,
                 destroyed, appQuit, losses, regLog, regOps>>

\* timeout_timer fires: loop.quit() of the activation that started it.
TimerTimeout(i) ==
  /\ Pumping
  /\ i \in DOMAIN stack
  /\ stack[i].kind = "call" /\ stack[i].phase = "waiting" /\ ~stack[i].quit
  /\ stack' = [stack EXCEPT ![i].quit = TRUE, ![i].why = "timeout"]
  /\ UNCHANGED <<reconn, inbound, startup>>
  /\ UNCHANGED <<urlOK, state, callbacks, data, calls, sent, answered, outcome,
                 event_callbacks, export_results, nextExport, exportOutcome,
                 notifs, notifyCalls, wire, destroyed, appQuit, losses, regLog,
                 regOps>>

\* ------------------------------------------------ on_text_message_received
\* A message with a `result` field and id `id`: the server's reply to a
\* request it received.  await_for_response stores the result in
\* send_and_receive.data and quits the loop of its own activation.
TextMessageResult(id) ==
  /\ Pumping
  /\ state = "Connected"
  /\ id \in sent \ answered
  /\ answered' = answered \cup {id}
  /\ IF id \in callbacks
     THEN /\ data' = Result(id)
          /\ stack' = QuitLoop(stack, id, "reply")
          /\ callbacks' = callbacks \ {id}
     ELSE UNCHANGED <<data, stack, callbacks>>
  /\ UNCHANGED <<reconn, inbound, startup>>
  /\ UNCHANGED <<urlOK, state, calls, sent, outcome, event_callbacks,
                 export_results, nextExport, exportOutcome, notifs, notifyCalls,
                 wire, destroyed, appQuit, losses, regLog, regOps>>

\* The suspended export activations see an EXPORT_FINISHED go by (history).
NoteFinished(stk, p) ==
  [i \in DOMAIN stk |->
     IF stk[i].kind = "export"
     THEN [stk[i] EXCEPT !.last = p, !.nfin = IF @ < 2 THEN @ + 1 ELSE @]
     ELSE stk[i]]

\* A message with method EXPORT_FINISHED and params {map_infos: p} (or {}
\* when p is "absent"): engine.process_request(method, **params).
TextMessageMethod(p) ==
  /\ Pumping
  /\ state = "Connected"
  /\ notifs < MaxNotifs
  /\ notifs' = notifs + 1
  /\ LET e == process_request(EngineState, "EXPORT_FINISHED", p) IN
     /\ event_callbacks' = e.reg
     /\ export_results' = e.export_results
     /\ destroyed' = e.destroyed
     /\ appQuit' = e.appQuit
  /\ stack' = NoteFinished(stack, p)
  /\ UNCHANGED <<reconn, inbound, startup>>
  /\ UNCHANGED <<urlOK, state, callbacks, data, calls, sent, answered, outcome,
                 nextExport, exportOutcome, notifyCalls, wire, losses, regLog,
                 regOps>>

\* ------------------------------------------------------------- returning
\* version["painter"] in get_application_version.
get_application_version(version) ==
  IF version.painter = "nofield" THEN "KeyError" ELSE version.painter

\* What the facade method of wire method m makes of the value
\* send_and_receive returned: "result" stands for `return result`, the
\* value as it came.  open_project binds the value to a local name and has
\* no return statement, so it returns None.
Facade(m, v) ==
  IF m = "GET_VERSION" THEN get_application_version(v)
  ELSE IF m = "OPEN_PROJECT" THEN "None"
  ELSE "result"

\* `return self.send_and_receive.data`, once loop.exec_() has returned.  The
\* attribute read raises AttributeError while no reply was ever stored; the
\* exception leaves export_document_maps too when that is the caller.
LoopReturn ==
  /\ stack # <<>>
  /\ Last(stack).kind = "call"
  /\ Last(stack).quit
  /\ LET f == Last(stack)
         rest == Front(stack)
         raised == (data = NoData)
         inExport == rest # <<>> /\ Last(rest).kind = "export"
     IN
     /\ outcome' = outcome @@
          (f.id :> [how |-> f.why,
                    answered |-> (f.id \in answered),
                    kind |-> IF raised THEN "AttributeError" ELSE "value",
                    value |-> data,
                    facade |-> IF raised THEN "AttributeError"
                               ELSE Facade(f.method, data)])
     /\ IF inExport /\ raised
        THEN /\ stack' = Front(rest)
             /\ exportOutcome' = exportOutcome @@
                  (Last(rest).id :> [kind |-> "AttributeError", value |-> "",
                                     last |-> Last(rest).last,
                                     nfin |-> Last(rest).nfin,
                                     early |-> Last(rest).nfin > 0])
        ELSE /\ stack' = IF inExport
                         THEN [rest EXCEPT ![Len(rest)].phase = "polling",
                                           ![Len(rest)].early =
                                              Last(rest).nfin > 0]
                         ELSE rest
             /\ UNCHANGED exportOutcome
  /\ UNCHANGED <<reconn, inbound, startup>>
  /\ UNCHANGED <<urlOK, state, callbacks, data, calls, sent, answered,
                 event_callbacks, export_results, nextExport, notifs,
                 notifyCalls, wire, destroyed, appQuit, losses, regLog, regOps>>

\* An export that does not wait for its callback (what C7 rules out).
ExportDoneAtOnce(results) == TRUE

\* The test of `while self.__export_results is None`.
ExportDone(results) == results # "None"

\* The end of export_document_maps: the while loop is left, the callback
\* unregistered, the attribute deleted.  Reading an attribute another
\* activation has deleted raises AttributeError.
ExportReturn ==
  /\ stack # <<>>
  /\ Last(stack).kind = "export"
  /\ Last(stack).phase = "polling"
  /\ ExportDone(export_results)
  /\ LET f == Last(stack) IN
     IF export_results = "noattr"
     THEN /\ exportOutcome' = exportOutcome @@
               (f.id :> [kind |-> "AttributeError", value |-> "",
                         last |-> f.last, nfin |-> f.nfin, early |-> f.early])
          /\ UNCHANGED <<event_callbacks, export_results>>
     ELSE /\ exportOutcome' = exportOutcome @@
               (f.id :> [kind |-> "value", value |-> export_results,
                         last |-> f.last, nfin |-> f.nfin, early |-> f.early])
          /\ event_callbacks' = unregister_event_callback(
                                  event_callbacks, "EXPORT_FINISHED", ExportCb(f.id))
          /\ export_results' = "noattr"
  /\ stack' = Front(stack)
  /\ UNCHANGED <<reconn, inbound, startup>>
  /\ UNCHANGED <<urlOK, state, callbacks, data, calls, sent, answered, outcome,
                 nextExport, notifs, notifyCalls, wire, destroyed, appQuit,
                 losses, regLog, regOps>>

\* ------------------------------------------------------------- the socket
\* The connection attempt succeeds: stateChanged(ConnectedState), for which
\* on_state_changed does nothing, and connected.
SocketConnected ==
  /\ Pumping
  /\ urlOK
  /\ state = "Connecting"
  /\ state' = "Connected"
  /\ reconnects' = 0
  /\ UNCHANGED <<closes, inbound, startup>>
  /\ UNCHANGED <<urlOK, callbacks, data, stack, calls, sent, answered, outcome,
                 event_callbacks, export_results, nextExport, exportOutcome,
                 notifs, notifyCalls, wire, destroyed, appQuit, losses, regLog,
                 regOps>>

\* The connection, or the attempt to connect, fails.  The socket leaves the
\* connected state, on which on_state_changed calls connect_to_server (the
\* socket is connecting again when it returns), and nsig of the signals
\* error and disconnected reach on_error and on_disconnected, each of which
\* runs process_request("QUIT").
SocketFails(nsig, maxLoss) ==
  /\ Pumping
  /\ state \in {"Connected", "Connecting"}
  /\ losses < maxLoss
  /\ losses' = losses + 1
  /\ LET r == on_state_changed("Unconnected", urlOK) IN
     /\ state' = r.state
     /\ reconnects' = reconnects + r.attempts
  /\ LET e1 == process_request(EngineState, "QUIT", "absent")
         e2 == IF nsig = 2 THEN process_request(e1, "QUIT", "absent") ELSE e1
     IN /\ destroyed' = e2.destroyed
        /\ appQuit' = e2.appQuit
        /\ event_callbacks' = e2.reg
        /\ export_results' = e2.export_results
  /\ stack' = QuitAll(stack)
  /\ UNCHANGED <<closes, inbound, startup>>
  /\ UNCHANGED <<urlOK, callbacks, data, calls, sent, answered, outcome,
                 nextExport, exportOutcome, notifs, notifyCalls, wire, regLog,
                 regOps>>

\* A failure within the budget of losses of the transport specifications.
SocketLost(nsig) == SocketFails(nsig, MaxLoss)

\* ------------------------------------------------------------------- Spec
\* What the socket, the timers and the returns do in every specification.
Transport ==
  \/ FinishSend
  \/ \E i \in DOMAIN stack : TimerTimeout(i)
  \/ \E id \in sent : TextMessageResult(id)
  \/ LoopReturn
  \/ SocketConnected
  \/ \E nsig \in 1..2 : SocketLost(nsig)

\* The transport: facade calls, nested to MaxDepth, their replies and
\* timeouts, connection loss.
Next ==
  \/ \E m \in Methods : CallMethod(m, MaxCalls, MaxDepth)
  \/ Transport

Spec == Init /\ [][Next]_vars

\* export_document_maps with the transport under it and the server's
\* EXPORT_FINISHED notifications.
NextExport ==
  \/ ExportStart(MaxExports, 2 * MaxExports)
  \/ \E p \in Payloads : TextMessageMethod(p)
  \/ ExportReturn
  \/ Transport

SpecExport == Init /\ [][NextExport]_vars

\* export_document_maps started again by a handler while an export waits,
\* on a connection that stays up.
NextNested ==
  \/ ExportStartUpTo(MaxNestedExports, MaxNestedExports, 2 * MaxNestedExports)
  \/ \E p \in {"mA", "mB"} : TextMessageMethod(p)
  \/ ExportReturn
  \/ FinishSend
  \/ \E i \in DOMAIN stack : TimerTimeout(i)
  \/ \E id \in sent : TextMessageResult(id)
  \/ LoopReturn
  \/ SocketConnected

SpecNested == Init /\ [][NextNested]_vars

\* Notifications (send_text_message without callback) in every socket
\* state, beside facade calls.
NextNotify ==
  \/ NotifyMessage(MaxNotify + MaxNotifyCalls)
  \/ CallMethod("SAVE_PROJECT", MaxNotifyCalls, MaxNotify + MaxNotifyCalls)
  \/ Transport

SpecNotify == Init /\ [][NextNotify]_vars

\* Every facade method that hands back a reply, one call at a time, with
\* the transport under it.
NextFacade ==
  \/ \E m \in FacadeMethods : CallMethod(m, MaxFacadeCalls, MaxFacadeDepth)
  \/ Transport

SpecFacade == Init /\ [][NextFacade]_vars

\* ---------------------------------------------------------- the registry
\* engine.register_event_callback(event_type, fn) called by a user of the
\* engine.
RegisterCallback(event_type, fn) ==
  /\ regOps < MaxRegOps
  /\ IF event_type \in DOMAIN event_callbacks
     THEN Len(event_callbacks[event_type]) < MaxCbs
     ELSE TRUE
  /\ regOps' = regOps + 1
  /\ event_callbacks' = register_event_callback(event_callbacks, event_type, fn)
  /\ regLog' = [op |-> "register", method |-> event_type, fn |-> fn,
                was |-> Registered(event_callbacks, event_type, fn), fns |-> <<>>]
  /\ UNCHANGED <<reconn, inbound, startup>>
  /\ UNCHANGED <<urlOK, state, callbacks, data, stack, calls, sent, answered,
                 outcome, export_results, nextExport, exportOutcome, notifs,
                 notifyCalls, wire, destroyed, appQuit, losses>>

\* engine.unregister_event_callback(event_type, fn) called by a user of
\* the engine.
UnregisterCallback(event_type, fn) ==
  /\ regOps < MaxRegOps
  /\ regOps' = regOps + 1
  /\ event_callbacks' = unregister_event_callback(event_callbacks, event_type, fn)
  /\ regLog' = [op |-> "unregister", method |-> event_type, fn |-> fn,
                was |-> Registered(event_callbacks, event_type, fn), fns |-> <<>>]
  /\ UNCHANGED <<reconn, inbound, startup>>
  /\ UNCHANGED <<urlOK, state, callbacks, data, stack, calls, sent, answered,
                 outcome, export_results, nextExport, exportOutcome, notifs,
                 notifyCalls, wire, destroyed, appQuit, losses>>

\* on_text_message_received for a message with a `method` field and params
\* {}: engine.process_request(method).  regLog keeps the callbacks it ran.
DispatchNotification(method) ==
  /\ Pumping
  /\ state = "Connected"
  /\ regOps < MaxRegOps
  /\ regOps' = regOps + 1
  /\ LET e == process_request(EngineState, method, "absent") IN
     /\ event_callbacks' = e.reg
     /\ export_results' = e.export_results
     /\ destroyed' = e.destroyed
     /\ appQuit' = e.appQuit
     /\ regLog' = [op |-> "dispatch", method |-> method, fn |-> UserCb(0),
                   was |-> FALSE, fns |-> e.invoked]
  /\ stack' = IF method = "QUIT" THEN QuitAll(stack) ELSE stack
  /\ UNCHANGED <<reconn, inbound, startup>>
  /\ UNCHANGED <<urlOK, state, callbacks, data, calls, sent, answered, outcome,
                 nextExport, exportOutcome, notifs, notifyCalls, wire, losses>>

\* The callback registry under register, unregister and inbound
\* notifications, with user callbacks.
NextRegistry ==
  \/ \E t \in EventTypes, fn \in UserCbs : RegisterCallback(t, fn)
  \/ \E t \in EventTypes, fn \in UserCbs : UnregisterCallback(t, fn)
  \/ \E t \in EventTypes : DispatchNotification(t)
  \/ SocketConnected

SpecRegistry == Init /\ [][NextRegistry]_vars

\* ---------------------------------------------------------- reconnection
\* Client.close(): QWebSocket.close().  Without a socket that is open or
\* opening it does nothing.  Otherwise the socket enters the closing
\* state, whose stateChanged runs on_state_changed; nsig tells whether the
\* disconnected signal of the socket that was closed still reaches
\* on_disconnected after connect_to_server has replaced it.
ClientClose(nsig) ==
  /\ Pumping
  /\ closes < MaxCloses
  /\ closes' = closes + 1
  /\ IF state \in {"Connected", "Connecting"}
     THEN /\ LET r == on_state_changed("Closing", urlOK) IN
             /\ state' = r.state
             /\ reconnects' = reconnects + r.attempts
          /\ LET e == IF nsig = 1
                      THEN process_request(EngineState, "QUIT", "absent")
                      ELSE EngineState
             IN /\ destroyed' = e.destroyed
                /\ appQuit' = e.appQuit
                /\ event_callbacks' = e.reg
                /\ export_results' = e.export_results
          /\ stack' = IF nsig = 1 THEN QuitAll(stack) ELSE stack
     ELSE /\ nsig = 0
          /\ UNCHANGED <<state, reconnects, destroyed, appQuit, event_callbacks,
                         export_results, stack>>
  /\ UNCHANGED <<inbound, startup>>
  /\ UNCHANGED <<urlOK, callbacks, data, calls, sent, answered, outcome,
                 nextExport, exportOutcome, notifs, notifyCalls, wire, losses,
                 regLog, regOps>>

\* The socket under repeated failures and an explicit close, with one
\* facade call beside them.
NextReconnect ==
  \/ SocketConnected
  \/ \E nsig \in 1..2 : SocketFails(nsig, MaxDrops)
  \/ \E nsig \in 0..1 : ClientClose(nsig)
  \/ CallMethod("SAVE_PROJECT", MaxReconnCalls, MaxReconnCalls)
  \/ FinishSend
  \/ \E i \in DOMAIN stack : TimerTimeout(i)
  \/ \E id \in sent : TextMessageResult(id)
  \/ LoopReturn

SpecReconnect == Init /\ [][NextReconnect]_vars

\* ------------------------------------------------- the inbound handler
\* create_shotgun_menu() of post_app_init: the engine has its menu.
CreateMenu ==
  /\ Pumping
  /\ ~menu_generator
  /\ menu_generator' = TRUE
  /\ UNCHANGED <<pointer, menuShown, rx, rxLog, reconn, startup>>
  /\ UNCHANGED <<urlOK, state, callbacks, data, stack, calls, sent, answered,
                 outcome, event_callbacks, export_results, nextExport,
                 exportOutcome, notifs, notifyCalls, wire, destroyed, appQuit,
                 losses, regLog, regOps>>

\* The user moves the pointer.
PointerMoved(pt) ==
  /\ Pumping
  /\ pt # pointer
  /\ pointer' = pt
  /\ UNCHANGED <<menu_generator, menuShown, rx, rxLog, reconn, startup>>
  /\ UNCHANGED <<urlOK, state, callbacks, data, stack, calls, sent, answered,
                 outcome, event_callbacks, export_results, nextExport,
                 exportOutcome, notifs, notifyCalls, wire, destroyed, appQuit,
                 losses, regLog, regOps>>

\* on_text_message_received for {"method": "DISPLAY_MENU", "params":
\* {"clickedPosition": ...}} on an engine that has its menu, up to
\* menu_handle.exec_(pos): process_request computes menu_position,
\* display_menu hands it to MenuGenerator.show, which pops the menu up and
\* runs its event loop.  A DISPLAY_MENU received while the menu is open is
\* not explored.
DisplayMenuNotification(clicked_info) ==
  /\ Pumping
  /\ state = "Connected"
  /\ rx < MaxInbound
  /\ Len(stack) < MaxInboundDepth
  /\ menu_generator
  /\ \A i \in DOMAIN stack : stack[i].kind # "menu"
  /\ rx' = rx + 1
  /\ menuShown' = [n |-> menuShown.n + 1,
                   at |-> show(menu_position(clicked_info), pointer)]
  /\ stack' = Append(stack, Frame("menu", 0, "DISPLAY_MENU", LoopPhase))
  /\ rxLog' = RxLog("notification", "DISPLAY_MENU", 0, clicked_info, TRUE,
                    "none", FALSE)
  /\ UNCHANGED <<menu_generator, pointer, reconn, startup>>
  /\ UNCHANGED <<urlOK, state, callbacks, data, calls, sent, answered, outcome,
                 event_callbacks, export_results, nextExport, exportOutcome,
                 notifs, notifyCalls, wire, destroyed, appQuit, losses, regLog,
                 regOps>>

\* The user dismisses the menu: its hide event exits the loop of
\* menu_handle.exec_.
MenuClosed ==
  /\ Pumping
  /\ \E i \in DOMAIN stack :
       /\ stack[i].kind = "menu" /\ stack[i].phase = "waiting" /\ ~stack[i].quit
       /\ stack' = [stack EXCEPT ![i].quit = TRUE, ![i].why = "closed"]
  /\ UNCHANGED <<reconn, inbound, startup>>
  /\ UNCHANGED <<urlOK, state, callbacks, data, calls, sent, answered, outcome,
                 event_callbacks, export_results, nextExport, exportOutcome,
                 notifs, notifyCalls, wire, destroyed, appQuit, losses, regLog,
                 regOps>>

\* menu_handle.exec_ has returned: the rest of process_request for
\* DISPLAY_MENU, which is its loop over the registered callbacks.
MenuReturn ==
  /\ stack # <<>>
  /\ Last(stack).kind = "menu"
  /\ Last(stack).quit
  /\ stack' = Front(stack)
  /\ LET e == process_request(EngineState, "DISPLAY_MENU", "absent") IN
     /\ event_callbacks' = e.reg
     /\ export_results' = e.export_results
     /\ destroyed' = e.destroyed
     /\ appQuit' = e.appQuit
     /\ regLog' = [op |-> "dispatch", method |-> "DISPLAY_MENU",
                   fn |-> UserCb(0), was |-> FALSE, fns |-> e.invoked]
  /\ UNCHANGED <<reconn, inbound, startup>>
  /\ UNCHANGED <<urlOK, state, callbacks, data, calls, sent, answered, outcome,
                 nextExport, exportOutcome, notifs, notifyCalls, wire, losses,
                 regOps>>

\* Values of the `params` field of an inbound notification: the field is
\* left out (jsonData.get gives None) or is an object.
ParamsForms == {"missing", "object"}

\* on_text_message_received for a message with a `method` field and no
\* `result`: process_request(method, **params).  `**None` raises TypeError
\* before process_request is entered.  DISPLAY_MENU on an engine without
\* menu goes straight to the callbacks; with a menu it is
\* DisplayMenuNotification.
TextMessageNotification(method, params) ==
  /\ Pumping
  /\ state = "Connected"
  /\ rx < MaxInbound
  /\ (method = "DISPLAY_MENU" /\ params = "object") => ~menu_generator
  /\ rx' = rx + 1
  /\ IF params = "missing"
     THEN /\ rxLog' = RxLog("notification", method, 0, NoClick, FALSE,
                            "TypeError", FALSE)
          /\ UNCHANGED <<event_callbacks, export_results, destroyed, appQuit,
                         regLog, stack>>
     ELSE LET e == process_request(EngineState, method, "absent") IN
          /\ rxLog' = RxLog("notification", method, 0, NoClick, TRUE, "none",
                            FALSE)
          /\ event_callbacks' = e.reg
          /\ export_results' = e.export_results
          /\ destroyed' = e.destroyed
          /\ appQuit' = e.appQuit
          /\ regLog' = [op |-> "dispatch", method |-> method, fn |-> UserCb(0),
                        was |-> FALSE, fns |-> e.invoked]
          /\ stack' = IF method = "QUIT" THEN QuitAll(stack) ELSE stack
  /\ UNCHANGED <<menu_generator, pointer, menuShown, reconn, startup>>
  /\ UNCHANGED <<urlOK, state, callbacks, data, calls, sent, answered, outcome,
                 nextExport, exportOutcome, notifs, notifyCalls, wire, losses,
                 regOps>>

\* A handler that completes a call for every reply (what C15 rules out).
PendingAlways(cbs, message_id) == TRUE

\* `message_id in self.callbacks` in on_text_message_received.
Pending(cbs, message_id) == message_id \in cbs

\* The `result` of a reply with id `id`, whoever sent it.
ReplyResult(id) ==
  IF id \in DOMAIN calls THEN Result(id) ELSE [rid |-> id, painter |-> "nofield"]

\* on_text_message_received for a reply the server owes to no request: a
\* repeated reply, a reply with an id no request had, or without id (0).
TextMessageReply(id) ==
  /\ Pumping
  /\ state = "Connected"
  /\ rx < MaxInbound
  /\ id \notin sent \ answered
  /\ rx' = rx + 1
  /\ rxLog' = RxLog("reply", "", id, NoClick, FALSE, "none",
                    Pending(callbacks, id))
  /\ IF Pending(callbacks, id)
     THEN /\ data' = ReplyResult(id)
          /\ stack' = QuitLoop(stack, id, "reply")
          /\ callbacks' = callbacks \ {id}
     ELSE UNCHANGED <<data, stack, callbacks>>
  /\ UNCHANGED <<menu_generator, pointer, menuShown, reconn, startup>>
  /\ UNCHANGED <<urlOK, state, calls, sent, answered, outcome, event_callbacks,
                 export_results, nextExport, exportOutcome, notifs, notifyCalls,
                 wire, destroyed, appQuit, losses, regLog, regOps>>

\* Payloads that are no envelope: text that is not JSON, and a JSON object
\* with neither `method` nor `result`.
Malformed == {"notjson", "bare"}

\* json.loads(message): ValueError for text that is not JSON.
json_loads(form) == IF form = "notjson" THEN "ValueError" ELSE "none"

\* on_text_message_received for such a payload: json.loads is not guarded,
\* and an object without the two fields enters neither branch.
TextMessageMalformed(form) ==
  /\ Pumping
  /\ state = "Connected"
  /\ rx < MaxInbound
  /\ rx' = rx + 1
  /\ rxLog' = RxLog(form, "", 0, NoClick, FALSE, json_loads(form), FALSE)
  /\ UNCHANGED <<menu_generator, pointer, menuShown, reconn, startup>>
  /\ UNCHANGED <<urlOK, state, callbacks, data, stack, calls, sent, answered,
                 outcome, event_callbacks, export_results, nextExport,
                 exportOutcome, notifs, notifyCalls, wire, destroyed, appQuit,
                 losses, regLog, regOps>>

\* register_event_callback within the budget of the inbound specification.
InboundRegister(event_type, fn) ==
  /\ regOps < MaxInboundRegs
  /\ RegisterCallback(event_type, fn)

\* The receive handler with every form of inbound message except
\* DISPLAY_MENU, and one facade call beside them.
NextInbound ==
  \/ \E t \in {"QUIT", "CUSTOM"}, fn \in UserCbs : InboundRegister(t, fn)
  \/ \E m \in {"QUIT", "CUSTOM"}, params \in ParamsForms :
       TextMessageNotification(m, params)
  \/ \E id \in 0..(MaxInboundCalls + 1) : TextMessageReply(id)
  \/ \E form \in Malformed : TextMessageMalformed(form)
  \/ CallMethod("SAVE_PROJECT", MaxInboundCalls, MaxInboundDepth)
  \/ FinishSend
  \/ \E i \in DOMAIN stack : TimerTimeout(i)
  \/ \E id \in sent : TextMessageResult(id)
  \/ LoopReturn
  \/ SocketConnected

SpecInbound == Init /\ [][NextInbound]_vars

\* DISPLAY_MENU notifications, the menu and the pointer, and one facade
\* call beside them.
NextMenu ==
  \/ CreateMenu
  \/ \E pt \in Points : PointerMoved(pt)
  \/ \E fn \in UserCbs : InboundRegister("DISPLAY_MENU", fn)
  \/ \E clicked_info \in Clicks : DisplayMenuNotification(clicked_info)
  \/ MenuClosed
  \/ MenuReturn
  \/ \E params \in ParamsForms : TextMessageNotification("DISPLAY_MENU", params)
  \/ CallMethod("SAVE_PROJECT", MaxInboundCalls, MaxInboundDepth)
  \/ FinishSend
  \/ \E i \in DOMAIN stack : TimerTimeout(i)
  \/ \E id \in sent : TextMessageResult(id)
  \/ LoopReturn
  \/ SocketConnected

SpecMenu == Init /\ [][NextMenu]_vars

\* ------------------------------------------------------- the version check
\* The engine starts under a host of any version.
InitVersion ==
  /\ InitClient
  /\ painter_version_str \in Versions
  /\ painter_version = <<>>
  /\ versionCheck = "none"

\* The version check of pre_app_init on the version string
\* get_application_version returned: both versions are normalized, TankError
\* is raised for a host below the minimum, and a host above it gets the
\* not-yet-tested warning.
PreAppInitVersionCheck ==
  /\ versionCheck = "none"
  /\ LET v == to_new_version_system(painter_version_str)
         painter_min_supported_version ==
           to_new_version_system(MINIMUM_SUPPORTED_VERSION)
     IN /\ painter_version' = v
        /\ versionCheck' =
             IF cmp(v, painter_min_supported_version) < 0 THEN "TankError"
             ELSE IF cmp(v, painter_min_supported_version) > 0 THEN "warning"
             ELSE "ok"
  /\ UNCHANGED <<painter_version_str, reconn, inbound>>
  /\ UNCHANGED <<urlOK, state, callbacks, data, stack, calls, sent, answered,
                 outcome, event_callbacks, export_results, nextExport,
                 exportOutcome, notifs, notifyCalls, wire, destroyed, appQuit,
                 losses, regLog, regOps>>

\* pre_app_init's version check under every host version, and the socket
\* coming up.
NextVersion ==
  \/ PreAppInitVersionCheck
  \/ SocketConnected

SpecVersion == InitVersion /\ [][NextVersion]_vars

\* ---------------------------------------------------------------- progress
\* What the thread does by itself once it can: send_text_message goes on
\* when its wait loop sees a state other than connecting, a started timer
\* fires while an event loop runs, and a loop.exec_() whose exit flag is set
\* returns.  What the server and the network do (the connection completes
\* or fails, a reply comes) is under no such obligation.
Progress ==
  /\ WF_vars(FinishSend)
  /\ WF_vars(\E i \in DOMAIN stack : TimerTimeout(i))
  /\ WF_vars(LoopReturn)

\* The transport with the progress of its own thread.
SpecLive == Init /\ [][Next]_vars /\ Progress

\* =================================================================== claims
\* outcome[id] is written when send_and_receive activation id returns: how
\* is what ended its wait, answered whether the reply with its id had been
\* received by then, kind and value what the caller got, facade what the
\* facade method made of it.
Returned == DOMAIN outcome

\* C1 (as claimed): a send_and_receive whose wait was ended by the reply
\* with its own id returns exactly the result of that reply, whatever the
\* order in which replies arrive.
C1_ReturnsMatchingResult ==
  \A id \in Returned :
    outcome[id].how = "reply" =>
      outcome[id].kind = "value" /\ outcome[id].value = Result(id)

\* C2 (as claimed): a send_and_receive whose timer fired and whose reply
\* never arrived does not return normally with a value.
C2_TimeoutNeverReturnsValue ==
  \A id \in Returned :
    (outcome[id].how = "timeout" /\ ~outcome[id].answered) =>
      outcome[id].kind # "value"

\* C3 (as claimed): once a call has ended by timeout without its reply,
\* its id is no longer a key of Client.callbacks.
C3_TimeoutRemovesPending ==
  \A id \in Returned :
    (outcome[id].how = "timeout" /\ ~outcome[id].answered) =>
      id \notin callbacks

\* C4 (as claimed): a call that was waiting when the connection was lost
\* ends with a ConnectionLost failure.
C4_LossFailsPendingCalls ==
  \A id \in Returned :
    outcome[id].how = "appquit" => outcome[id].kind = "ConnectionLost"

\* C10 (as claimed): get_application_version returns the painter field of
\* the result of the reply to its own GET_VERSION request.
C10_VersionIsPainterField ==
  \A id \in Returned :
    (calls[id] = "GET_VERSION" /\ outcome[id].answered) =>
      outcome[id].facade = Result(id).painter

\* C5: a send_text_message without callback made while the socket is
\* closing or unconnected writes nothing to the socket, leaves
\* Client.callbacks as it is and returns at once (no activation is left
\* suspended, nothing is raised), every time it is made.
C5_DroppedNotificationIsNoOp ==
  [][(notifyCalls' = notifyCalls + 1 /\ state \in {"Closing", "Unconnected"})
       => (wire' = wire /\ callbacks' = callbacks /\ sent' = sent
           /\ stack' = stack /\ state' = state)]_vars

\* C5 happens: two notifications were made on an unconnected socket and
\* nothing was written.
C5_Witness ==
  notifyCalls = MaxNotify /\ state = "Unconnected" /\ wire = 0 /\ stack = <<>>

\* C6: an export_document_maps that returned a value returned the
\* map_infos of the latest EXPORT_FINISHED received since it registered
\* its callback (the empty mapping when the notification left the field
\* out), and its callback is not in the EXPORT_FINISHED list any more.
C6_ExportReturnsMapInfos ==
  \A n \in DOMAIN exportOutcome :
    exportOutcome[n].kind = "value" =>
      /\ exportOutcome[n].last \in {"mA", "mB", "absent"}
      /\ exportOutcome[n].value =
           (IF exportOutcome[n].last = "absent" THEN "{}"
            ELSE exportOutcome[n].last)
      /\ ~Registered(event_callbacks, "EXPORT_FINISHED", ExportCb(n))

\* C6 happens: an export returned the payload of the second of two
\* notifications, and the server has sent nothing since.
C6_Witness ==
  \E n \in DOMAIN exportOutcome :
    /\ exportOutcome[n].kind = "value"
    /\ exportOutcome[n].nfin = 2
    /\ exportOutcome[n].value = "mB"

\* C7: an export_document_maps that returned had an EXPORT_FINISHED with
\* a payload dispatched to its callback first; and while none was, the
\* export whose request was acknowledged or timed out is still suspended.
C7_ExportWaitsForNotification ==
  /\ \A n \in DOMAIN exportOutcome :
       exportOutcome[n].kind = "value" =>
         exportOutcome[n].nfin > 0 /\ exportOutcome[n].last # "null"
  /\ \A i \in DOMAIN stack :
       (stack[i].kind = "export" /\ stack[i].nfin = 0) =>
         stack[i].id \notin DOMAIN exportOutcome

\* C7 happens: the request of an export was acknowledged, the export went
\* on waiting, and it returned once the notification came.
C7_Witness ==
  \E n \in DOMAIN exportOutcome, id \in Returned :
    /\ exportOutcome[n].kind = "value"
    /\ exportOutcome[n].nfin = 1
    /\ calls[id] = "EXPORT_DOCUMENT_MAPS"
    /\ outcome[id].how = "reply"

\* C8 (as claimed): a notification dispatched while two different
\* callbacks are registered for its method invokes exactly those two, in
\* registration order.
C8_BothCallbacksInOrder ==
  [][(/\ regOps' = regOps + 1
      /\ regLog'.op = "dispatch"
      /\ regLog'.method \in DOMAIN event_callbacks
      /\ Len(event_callbacks[regLog'.method]) = 2
      /\ event_callbacks[regLog'.method][1] # event_callbacks[regLog'.method][2])
       => regLog'.fns = event_callbacks[regLog'.method]]_vars

\* C9: unregister_event_callback for a callback that is not registered
\* for the event type leaves _event_callbacks as it is.
C9_UnregisterAbsentIsNoOp ==
  [][(/\ regOps' = regOps + 1
      /\ regLog'.op = "unregister"
      /\ ~regLog'.was)
       => event_callbacks' = event_callbacks]_vars

\* C9 happens: the last operation unregistered a callback that was not in
\* the non-empty list of its event type.
C9_Witness ==
  /\ regLog.op = "unregister"
  /\ ~regLog.was
  /\ regLog.method \in DOMAIN event_callbacks
  /\ event_callbacks[regLog.method] # <<>>

\* C11: a DISPLAY_MENU notification handled by an engine that has its menu
\* pops the menu up once, at (x, y) when its params carry clickedPosition
\* {x, y} and at the pointer's location when they do not.
C11_MenuAtClickedPosition ==
  [][(/\ rx' = rx + 1
      /\ rxLog'.method = "DISPLAY_MENU"
      /\ rxLog'.entered
      /\ menu_generator)
       => /\ menuShown'.n = menuShown.n + 1
          /\ menuShown'.at = IF rxLog'.click.given
                             THEN <<rxLog'.click.x, rxLog'.click.y>>
                             ELSE pointer]_vars

\* C11 happens: the last message was a DISPLAY_MENU clicked at (10, 20)
\* while the pointer was elsewhere, and the menu is up there.
C11_Witness ==
  /\ rxLog.method = "DISPLAY_MENU"
  /\ rxLog.click = [given |-> TRUE, x |-> 10, y |-> 20]
  /\ pointer = <<3, 4>>
  /\ menuShown = [n |-> 1, at |-> <<10, 20>>]
  /\ stack # <<>> /\ Last(stack).kind = "menu"

\* C12 (as claimed): from the moment the connection is lost until it is
\* connected again, on_state_changed makes at most max_attemps calls of
\* connect_to_server.
C12_ReconnectsWithinBudget == reconnects <= max_attemps

\* C13 (as claimed): a connection that dropped and was connected again has
\* not made the engine process QUIT.
C13_NoQuitWhenReconnected ==
  (losses > 0 /\ closes = 0 /\ state = "Connected") => destroyed = 0

\* C14 (as claimed): Client.close() makes no connect_to_server call.
C14_CloseDoesNotReconnect ==
  [][closes' = closes + 1 => reconnects' = reconnects]_vars

\* C15: a reply whose id is not a key of Client.callbacks invokes no
\* completion (send_and_receive.data is untouched), ends no wait, leaves
\* Client.callbacks as it is, makes no call return and raises nothing.
C15_UnmatchedReplyDropped ==
  [][(/\ rx' = rx + 1
      /\ rxLog'.form = "reply"
      /\ rxLog'.id \notin callbacks)
       => /\ ~rxLog'.hit
          /\ rxLog'.raised = "none"
          /\ callbacks' = callbacks
          /\ data' = data
          /\ stack' = stack
          /\ outcome' = outcome]_vars

\* C15 happens: the last message repeated the reply to a call that is
\* still on the stack, and found no id.
C15_Witness ==
  /\ rxLog.form = "reply"
  /\ ~rxLog.hit
  /\ rxLog.id \in answered
  /\ \E i \in DOMAIN stack : stack[i].kind = "call" /\ stack[i].id = rxLog.id

\* C16 (as claimed): a payload that is not JSON, or a JSON object with
\* neither `method` nor `result`, makes the receive handler raise nothing
\* and change neither Client.callbacks, nor _event_callbacks, nor the
\* socket state.
C16_MalformedDropped ==
  [][(rx' = rx + 1 /\ rxLog'.form \in Malformed)
       => /\ rxLog'.raised = "none"
          /\ callbacks' = callbacks
          /\ event_callbacks' = event_callbacks
          /\ state' = state]_vars

\* C17 (as claimed): a notification of a built-in method that has
\* callbacks registered runs the built-in behaviour (for QUIT:
\* destroy_engine and QApplication.quit) and every one of the callbacks.
C17_BuiltInAndCallbacks ==
  [][(/\ regOps' = regOps + 1
      /\ regLog'.op = "dispatch"
      /\ regLog'.method \in BuiltIn
      /\ regLog'.method \in DOMAIN event_callbacks)
       => /\ destroyed' = destroyed + 1
          /\ appQuit'
          /\ \A fn \in Range(event_callbacks[regLog'.method]) :
               fn \in Range(regLog'.fns)]_vars

\* C18: a notification whose method is neither built in nor a key of
\* _event_callbacks changes neither the registry, nor the menu, nor the
\* engine (no teardown, no quit, no loop ended); and when process_request
\* is entered for it, nothing is raised and no callback is invoked.
C18_UnknownMethodIgnored ==
  [][(/\ rx' = rx + 1
      /\ rxLog'.form = "notification"
      /\ rxLog'.method \notin BuiltIn
      /\ rxLog'.method \notin DOMAIN event_callbacks)
       => /\ event_callbacks' = event_callbacks
          /\ menuShown' = menuShown
          /\ destroyed' = destroyed
          /\ appQuit' = appQuit
          /\ export_results' = export_results
          /\ stack' = stack
          /\ rxLog'.entered =>
               (rxLog'.raised = "none" /\ regLog'.fns = <<>>)]_vars

\* C18 happens: process_request was entered for CUSTOM while the registry
\* had callbacks for another method only.
C18_Witness ==
  /\ rxLog.form = "notification"
  /\ rxLog.method = "CUSTOM"
  /\ rxLog.entered
  /\ DOMAIN event_callbacks = {"QUIT"}
  /\ regLog.op = "dispatch" /\ regLog.method = "CUSTOM"

\* C19 (as claimed): once a QUIT notification has been handled, the engine
\* has been destroyed and the socket is no longer connected.
C19_QuitClosesTransport ==
  [][(/\ rx' = rx + 1
      /\ rxLog'.form = "notification"
      /\ rxLog'.method = "QUIT")
       => (destroyed' = destroyed + 1 /\ state' # "Connected")]_vars

\* C20: the calls suspended at once have ids of their own, and a request
\* sent with a completion callback carries an id that is not a key of
\* Client.callbacks at that moment (uuid4 ids are taken to be fresh).
C20_IdsNotReusedWhilePending ==
  /\ [](\A i, j \in DOMAIN stack :
          (i # j /\ stack[i].kind = "call" /\ stack[j].kind = "call")
            => stack[i].id # stack[j].id)
  /\ [][(/\ wire' = wire + 1
          /\ stack' # <<>>
          /\ Last(stack').kind = "call"
          /\ Last(stack').phase # "connecting"
          /\ \/ Len(stack') = Len(stack) + 1
             \/ /\ Len(stack') = Len(stack)
                /\ Last(stack).kind = "call"
                /\ Last(stack).phase = "connecting")
           => /\ Last(stack').id \notin callbacks
              /\ Last(stack').id \in callbacks']_vars

\* C20 happens: two calls are pending at once, each under its own id.
C20_Witness ==
  /\ Len(stack) = 2
  /\ stack[1].kind = "call" /\ stack[2].kind = "call"
  /\ callbacks = {stack[1].id, stack[2].id}
  /\ stack[1].id # stack[2].id

\* send_and_receive activation id is suspended.
Suspended(id) ==
  \E i \in DOMAIN stack : stack[i].kind = "call" /\ stack[i].id = id

\* C21 (as claimed): every send_and_receive that was entered returns to its
\* caller, whatever the socket state was when it was entered and whatever
\* the server does.
C21_EveryCallReturns ==
  \A id \in 1..MaxCalls : Suspended(id) ~> (id \in Returned)

\* C22 (as claimed): a call-and-wait facade method whose reply was received
\* during its wait has written one request, with its wire method name, to
\* the connected socket and returns the result of that reply.
C22_FacadeReturnsResult ==
  \A id \in Returned :
    (calls[id] \in FacadeMethods /\ outcome[id].how = "reply") =>
      /\ id \in sent
      /\ outcome[id].value = Result(id)
      /\ outcome[id].facade = "result"

\* The host version is of the year style (2017.1 and later years).
YearStyle == painter_version_str[1] >= 2017

\* C23: once pre_app_init has made its version check, the normalized
\* version is the host's version with 2014 taken off its first component
\* when that version is 2017.1 or later in the year style (2017.1 -> 3.1,
\* 2018.0 -> 4.0, 2020.1 -> 6.1) and the host's version itself otherwise
\* (2.6.2, 6.2); and TankError was raised exactly for the hosts older than
\* 2018.3: the year-style versions before 2018.3, and the versions before
\* 4.3 in the other style.
C23_VersionNormalized ==
  versionCheck # "none" =>
    LET v == painter_version_str
        major == IF YearStyle THEN v[1] - 2014 ELSE v[1]
    IN /\ Len(painter_version) = Len(v)
       /\ painter_version[1] = major
       /\ \A i \in 2..Len(v) : painter_version[i] = v[i]
       /\ (versionCheck = "TankError") <=>
            (major < 4 \/ (major = 4 /\ v[2] < 3))

\* C23 happens: a 2018.2.1 host was normalized to 4.2.1 and refused.
C23_Witness ==
  /\ painter_version_str = <<2018, 2, 1>>
  /\ painter_version = <<4, 2, 1>>
  /\ versionCheck = "TankError"

\* The innermost activation is a send_and_receive waiting in loop.exec_().
CallWaiting ==
  /\ stack # <<>>
  /\ Last(stack).kind = "call"
  /\ Last(stack).phase = "waiting"
  /\ ~Last(stack).quit

\* C24 (as claimed): a notification that arrives while a call waits for its
\* reply is dispatched by process_request there and then, and the call goes
\* on waiting: no loop is ended and no call returns.
C24_NotificationDuringWait ==
  [][(/\ CallWaiting
      /\ rx' = rx + 1
      /\ rxLog'.form = "notification"
      /\ rxLog'.entered)
       => /\ regLog'.op = "dispatch"
          /\ regLog'.method = rxLog'.method
          /\ stack' = stack
          /\ outcome' = outcome]_vars

\* Call 2 was made by a handler during the wait of call 1, and both are
\* waiting for their replies.
BothWaiting ==
  /\ Len(stack) = 2
  /\ stack[1].kind = "call" /\ stack[1].id = 1
  /\ stack[1].phase = "waiting" /\ ~stack[1].quit
  /\ stack[2].kind = "call" /\ stack[2].id = 2
  /\ stack[2].phase = "waiting" /\ ~stack[2].quit

\* The reply to call 1 has been received, and call 2 is still waiting for
\* its own.
OuterAnsweredDuringInner ==
  /\ Len(stack) = 2
  /\ stack[1].id = 1 /\ stack[1].why = "reply"
  /\ stack[2].id = 2 /\ stack[2].phase = "waiting" /\ ~stack[2].quit

\* C25 (as claimed): when the reply to an outer call arrives while a nested
\* call is still waiting, and the nested call is then ended by its own
\* reply, the nested call returns the result of the nested call's reply and
\* the outer call afterwards returns the result of the outer call's reply.
C25_NestedCallsReentrant ==
  [](BothWaiting =>
       [](OuterAnsweredDuringInner =>
            [](({1, 2} \subseteq Returned /\ outcome[2].how = "reply") =>
                 /\ outcome[2].kind = "value" /\ outcome[2].value = Result(2)
                 /\ outcome[1].kind = "value" /\ outcome[1].value = Result(1))))

\* send_and_receive activation id is in the wait loop of send_text_message.
WaitingToSend(id) ==
  \E i \in DOMAIN stack :
    stack[i].kind = "call" /\ stack[i].id = id /\ stack[i].phase = "connecting"

\* C26 (as claimed): a message is handed to the socket, and a completion is
\* stored in Client.callbacks, only while the socket is connected; and a
\* call issued while the socket is connecting, whose connection attempt
\* fails during its wait, never has its message written nor its id put in
\* Client.callbacks.
C26_WrittenOnlyWhenConnected ==
  /\ [][(wire' # wire \/ callbacks' \ callbacks # {}) => state = "Connected"]_vars
  /\ \A id \in 1..MaxCalls :
       []((WaitingToSend(id) /\ losses = 0) =>
            []((WaitingToSend(id) /\ losses > 0) =>
                 [](id \notin callbacks /\ id \notin sent)))

\* The number of times x occurs in the list s.
Count(s, x) == Cardinality({i \in DOMAIN s : s[i] = x})

\* C27 (as claimed): the dispatch of a notification invokes exactly once
\* each callback that is in the list of the notification's type when the
\* dispatch starts (every callback being registered once), also when a
\* callback unregisters during the dispatch.
C27_EveryCallbackOnce ==
  [][(/\ regOps' = regOps + 1
      /\ regLog'.op = "dispatch"
      /\ regLog'.method \in DOMAIN event_callbacks
      /\ \A fn \in UserCbs : Count(event_callbacks[regLog'.method], fn) <= 1)
       => \A fn \in Range(event_callbacks[regLog'.method]) :
            Count(regLog'.fns, fn) = 1]_vars

\* C28 (as claimed): one connection loss makes the engine run its teardown
\* (destroy_engine, then QApplication.quit) at most once, whichever of the
\* signals error and disconnected the loss raises.
C28_TeardownOncePerLoss ==
  [][losses' = losses + 1 => destroyed' <= destroyed + 1]_vars

\* C29 (as claimed): an export_document_maps whose request was
\* acknowledged by its reply and which received EXPORT_FINISHED with a
\* payload, before or after that reply, returns the payload; and when an
\* EXPORT_FINISHED came before the reply, the method has what it needs to
\* return as soon as the call has returned, without pumping events for a
\* further one.
C29_ExportBothOrders ==
  /\ \A n \in DOMAIN exportOutcome :
       (/\ n \in Returned
        /\ outcome[n].how = "reply"
        /\ exportOutcome[n].nfin >= 1
        /\ exportOutcome[n].last # "null")
         => /\ exportOutcome[n].kind = "value"
            /\ exportOutcome[n].value =
                 (IF exportOutcome[n].last = "absent" THEN "{}"
                                                      ELSE exportOutcome[n].last)
  /\ (/\ stack # <<>>
      /\ Last(stack).kind = "export"
      /\ Last(stack).phase = "polling"
      /\ Last(stack).early
      /\ Last(stack).last # "null")
       => ENABLED ExportReturn

\* C30 (as claimed): every key of Client.callbacks is the id of a request
\* that was written to the connected socket and whose send_and_receive is
\* still suspended.
C30_PendingAreWaitingCalls ==
  \A id \in callbacks : id \in sent /\ Suspended(id)

====
